---- MODULE Spec2Model ----
(***************************************************************************)
(* Lead Lifecycle Reminder & Change-Detection Engine of lead_manager_bot.  *)
(* Time is counted in whole minutes.  A sheet cell holding a timestamp is  *)
(* an integer: EmptyCell for "", BadCell for text no format parses, and a  *)
(* minute count otherwise.                                                 *)
(***************************************************************************)
EXTENDS Integers, Sequences, FiniteSets, Bags, TLC

VARIABLES now, sheet, lead_state, reminders, sellers, admin_users,
          outbox, undelivered, reported, writes, pass, faults, mon, events,
          edited, skipped, missed, retry, roundtrip

vars == <<now, sheet, lead_state, reminders, sellers, admin_users,
          outbox, undelivered, reported, writes, pass, faults, mon, events,
          edited, skipped, missed, retry, roundtrip>>

\* the run of the monitor job, the events it returned, the edits of the sellers
monitorVars == <<mon, events, edited>>

-----------------------------------------------------------------------------
(* config.py *)

STATUS_NEW_LEAD == "New Lead"
STATUS_CALL1_NEEDED == "Call #1 Needed"
STATUS_CALL1_DONE == "Call #1 Done"
STATUS_CALL2_DONE == "Call #2 Done"
STATUS_CALL3_DONE == "Call #3 Done"
STATUS_FIRST_CLASS_PENDING == "First Class Pending Confirmation"
STATUS_DID_NOT_ATTEND == "Did Not Attend First Class"

\* REMINDER_CALL2_DELAY = 7200 s and REMINDER_CALL3_DELAY = 86400 s, in minutes
REMINDER_CALL2_DELAY == 120
REMINDER_CALL3_DELAY == 1440

MAX_RETRIES == 3

\* seconds
RETRY_DELAY == 5

\* ADMIN_IDS, the administrators named by the environment
ADMIN_IDS == {901}

-----------------------------------------------------------------------------
(* utils/time_utils.py *)

EmptyCell == -1
BadCell == -2
NoneDT == -9

\* None where a datetime is expected, "" where a text is
PyNoneDT == [date |-> <<>>, time |-> <<>>, aware |-> FALSE, tz |-> 0]
EmptyText == [layout |-> "", numbers |-> <<>>]

parse_datetime(dt_string) ==
    IF dt_string = EmptyCell \/ dt_string = BadCell THEN NoneDT ELSE dt_string

format_datetime(dt) == IF dt = NoneDT THEN EmptyCell ELSE dt

add_hours(dt, hours) == dt + hours * 60

add_seconds(dt, minutes) == dt + minutes

\* dt - now_utc(), in minutes
time_until(dt) == dt - now

is_past(dt) == dt < now

\* (dt2 - dt1) in minutes; the callers compare it with hours * 60
hours_between(dt1, dt2) == dt2 - dt1

-----------------------------------------------------------------------------
(* utils/time_utils.py on datetime values: a datetime is its calendar      *)
(* fields, whether it has a tzinfo, and the offset from UTC in minutes; a  *)
(* string is the layout of its text and the numbers in it                  *)

Years == {2023, 2024, 2025}

IsLeap(y) == (y % 4 = 0 /\ y % 100 # 0) \/ y % 400 = 0

DaysInMonth(y, m) ==
    CASE m \in {4, 6, 9, 11} -> 30
      [] m = 2 -> IF IsLeap(y) THEN 29 ELSE 28
      [] OTHER -> 31

DaysInYear(y) == IF IsLeap(y) THEN 366 ELSE 365

RECURSIVE DaysBeforeMonth(_, _)
DaysBeforeMonth(y, m) ==
    IF m = 1 THEN 0 ELSE DaysBeforeMonth(y, m - 1) + DaysInMonth(y, m - 1)

RECURSIVE DaysBeforeYear(_)
DaysBeforeYear(y) ==
    IF y = 2023 THEN 0 ELSE DaysBeforeYear(y - 1) + DaysInYear(y - 1)

\* date.toordinal(), counted from the first day of Years
Ordinal(date) ==
    DaysBeforeYear(date[1]) + DaysBeforeMonth(date[1], date[2]) + date[3] - 1

CalendarDays ==
    {date \in Years \X (1 .. 12) \X (1 .. 31) : date[3] <= DaysInMonth(date[1], date[2])}

\* date.fromordinal(n)
FromOrdinal(n) == CHOOSE date \in CalendarDays : Ordinal(date) = n

Datetime(date, time, aware, tz) ==
    [date |-> date, time |-> time, aware |-> aware, tz |-> tz]

\* the seconds of the wall clock of a datetime since the first day of Years
WallSeconds(dt) ==
    ((Ordinal(dt.date) * 24 + dt.time[1]) * 60 + dt.time[2]) * 60 + dt.time[3]

\* the UTC datetime of a count of seconds
FromSeconds(n) ==
    Datetime(FromOrdinal(n \div 86400),
             <<(n % 86400) \div 3600, (n % 3600) \div 60, n % 60>>, TRUE, 0)

\* UTC.localize(dt): the same wall clock, tzinfo UTC
localize(dt) == [dt EXCEPT !.aware = TRUE, !.tz = 0]

\* dt.astimezone(UTC): the same instant, wall clock of UTC
astimezone(dt) == FromSeconds(WallSeconds(dt) - dt.tz * 60)

\* dt.strftime("%Y-%m-%d %H:%M:%S"): the text shows the wall clock, not tzinfo
strftime(dt) ==
    [layout |-> "%Y-%m-%d %H:%M:%S", numbers |-> dt.date \o dt.time]

\* the layouts parse_datetime tries with strptime, in order
formats ==
    <<"%Y-%m-%d %H:%M:%S", "%Y-%m-%d %H:%M", "%Y-%m-%d",
      "%d/%m/%Y %H:%M:%S", "%d/%m/%Y %H:%M", "%d/%m/%Y",
      "%m/%d/%Y %H:%M:%S", "%m/%d/%Y %H:%M", "%m/%d/%Y">>

\* a format_datetime that writes the wall clock of the zone the value carries
format_datetime_wall_clock(dt) ==
    IF dt = PyNoneDT THEN EmptyText ELSE strftime(dt)

\* format_datetime(dt) with the default format_str
format_datetime_text(dt) ==
    IF dt = PyNoneDT
    THEN EmptyText
    ELSE strftime(IF ~dt.aware THEN localize(dt) ELSE astimezone(dt))

\* parse_datetime(dt_string) for a text of one of the layouts with seconds:
\* strptime gives a naive datetime, which is taken as UTC
parse_datetime_text(text) ==
    IF text = EmptyText
    THEN PyNoneDT
    ELSE IF \E i \in DOMAIN formats : formats[i] = text.layout /\ Len(text.numbers) = 6
         THEN LET n == text.numbers
                  dt == IF text.layout = formats[1]
                        THEN Datetime(<<n[1], n[2], n[3]>>, <<n[4], n[5], n[6]>>, FALSE, 0)
                        ELSE IF text.layout = formats[4]
                        THEN Datetime(<<n[3], n[2], n[1]>>, <<n[4], n[5], n[6]>>, FALSE, 0)
                        ELSE Datetime(<<n[3], n[1], n[2]>>, <<n[4], n[5], n[6]>>, FALSE, 0)
              IN  IF ~dt.aware THEN localize(dt) ELSE dt
         ELSE PyNoneDT

\* the instant a datetime denotes, in seconds; a naive one is read as UTC
Instant(dt) == WallSeconds(dt) - (IF ~dt.aware THEN 0 ELSE dt.tz * 60)

\* no conversion in progress
NoRoundTrip == [pc |-> "idle", dt |-> PyNoneDT, text |-> EmptyText, back |-> PyNoneDT]

\* format_datetime applied to the value at hand
FormatStep ==
    /\ roundtrip.pc = "input"
    /\ roundtrip' = [roundtrip EXCEPT !.pc = "formatted",
                                      !.text = format_datetime_text(roundtrip.dt)]
    /\ UNCHANGED <<now, sheet, lead_state, reminders, sellers, admin_users,
                   outbox, undelivered, reported, writes, pass, faults, mon,
                   events, edited, skipped, missed, retry>>

\* parse_datetime applied to the text format_datetime gave
ParseStep ==
    /\ roundtrip.pc = "formatted"
    /\ roundtrip' = [roundtrip EXCEPT !.pc = "parsed",
                                      !.back = parse_datetime_text(roundtrip.text)]
    /\ UNCHANGED <<now, sheet, lead_state, reminders, sellers, admin_users,
                   outbox, undelivered, reported, writes, pass, faults, mon,
                   events, edited, skipped, missed, retry>>

-----------------------------------------------------------------------------
(* database.py *)

PyNone == "None"
NoState == [last_status |-> PyNone, last_checked |-> NoneDT]
NoTelegram == 0

\* dict.get(key) on a row of a table: None for a column the table lacks
RowGet(row, key) == IF key \in DOMAIN row THEN row[key] ELSE PyNone

get_all_sellers == {s \in sellers : s.is_active = 1}

Lower(s) == CASE s = "Ali" -> "ali"
              [] s = " Ali " -> " ali "
              [] OTHER -> s

Trim(s) == CASE s = " Ali " -> "Ali"
             [] s = " ali " -> "ali"
             [] OTHER -> s

\* SELECT * FROM sellers WHERE LOWER(TRIM(seller_name)) = LOWER(TRIM(?))
get_seller_by_name(seller_name) ==
    IF Trim(seller_name) = ""
    THEN {}
    ELSE {s \in sellers : Lower(Trim(s.seller_name)) = Lower(Trim(Trim(seller_name)))}

\* the telegram ids of users with role admin, then ADMIN_IDS not seen
get_all_admins == admin_users \cup {a \in ADMIN_IDS : a \notin admin_users}

Triple(row) == <<row.lead_id, row.reminder_type, row.scheduled_time>>

\* a query that looks for rows of another status and so finds none
was_reminder_sent_pending(lead_id, reminder_type, scheduled_time) ==
    \E i \in DOMAIN reminders :
        /\ Triple(reminders[i]) = <<lead_id, reminder_type, scheduled_time>>
        /\ reminders[i].status = "pending"

\* SELECT COUNT(*) ... WHERE lead_id, reminder_type, scheduled_time, status = 'sent'
was_reminder_sent(lead_id, reminder_type, scheduled_time) ==
    \E i \in DOMAIN reminders :
        /\ Triple(reminders[i]) = <<lead_id, reminder_type, scheduled_time>>
        /\ reminders[i].status = "sent"

\* UNIQUE(lead_id, reminder_type, scheduled_time): the insert raises IntegrityError
UniqueViolation(table, lead_id, reminder_type, scheduled_time) ==
    \E i \in DOMAIN table :
        Triple(table[i]) = <<lead_id, reminder_type, scheduled_time>>

\* an insert into a table that lacks the UNIQUE constraint
mark_reminder_sent_no_unique(table, lead_id, reminder_type, scheduled_time) ==
    Append(table, [lead_id |-> lead_id,
                   reminder_type |-> reminder_type,
                   scheduled_time |-> scheduled_time,
                   sent_time |-> format_datetime(now),
                   status |-> "sent"])

\* the reminders table after mark_reminder_sent
mark_reminder_sent(table, lead_id, reminder_type, scheduled_time) ==
    IF UniqueViolation(table, lead_id, reminder_type, scheduled_time)
    THEN table
    ELSE Append(table, [lead_id |-> lead_id,
                        reminder_type |-> reminder_type,
                        scheduled_time |-> scheduled_time,
                        sent_time |-> format_datetime(now),
                        status |-> "sent"])

\* the value mark_reminder_sent returns
mark_reminder_sent_result(table, lead_id, reminder_type, scheduled_time) ==
    ~UniqueViolation(table, lead_id, reminder_type, scheduled_time)

\* INSERT OR REPLACE INTO lead_state
update_lead_state(table, lead_id, status) ==
    [table EXCEPT ![lead_id] =
        [last_status |-> status, last_checked |-> format_datetime(now)]]

get_lead_state(lead_id) == lead_state[lead_id]

-----------------------------------------------------------------------------
(* google_sheets.py *)

\* a fetch that hands over the rows also when it failed
get_all_leads_despite_failure(ok) == SelectSeq(sheet, LAMBDA row : row.ID # "")

\* the leads of the sheet, rows with an empty ID skipped; [] when the fetch
\* fails after its retries
get_all_leads(ok) ==
    IF ok THEN SelectSeq(sheet, LAMBDA row : row.ID # "") ELSE <<>>

HasLead(sh, lead_id) == \E i \in DOMAIN sh : sh[i].ID = lead_id

\* get_lead_by_id returns the first row with the ID
FirstRow(sh, lead_id) ==
    CHOOSE i \in DOMAIN sh :
        sh[i].ID = lead_id /\ \A j \in DOMAIN sh : j < i => sh[j].ID # lead_id

\* the value update_lead returns: False when the lead is not found or the
\* batch update fails after its retries
update_lead_result(sh, lead_id, ok) == ok /\ lead_id # "" /\ HasLead(sh, lead_id)

\* the sheet after update_lead(lead_id, updates)
update_lead(sh, lead_id, updates, ok) ==
    IF update_lead_result(sh, lead_id, ok)
    THEN [sh EXCEPT ![FirstRow(sh, lead_id)] =
            [c \in DOMAIN @ |-> IF c \in DOMAIN updates THEN updates[c] ELSE @[c]]]
    ELSE sh

\* update_call_time(lead_id, call_number, call_time)
update_call_time(sh, lead_id, call_column, call_time, ok) ==
    update_lead(sh, lead_id, call_column :> format_datetime(call_time), ok)

WriteRecord(lead_id, column, value, ok) ==
    [lead_id |-> lead_id, column |-> column, value |-> value,
     ok |-> ok, at |-> now]

\* no call of _retry_operation in progress
RetryIdle == [pc |-> "idle", caller |-> "", script |-> <<>>, attempt |-> 0,
              waits |-> <<>>, raised |-> FALSE, result |-> PyNone]

\* a backoff that does not grow
wait_time_fixed(attempt) == RETRY_DELAY

\* "wait_time = RETRY_DELAY * (2 ** attempt)", attempt counted from 0
wait_time(attempt) == RETRY_DELAY * (2 ^ attempt)

\* "result = await loop.run_in_executor(None, operation, ...)": the next
\* attempt; script[k] tells whether the k-th call of the operation succeeds
RetryAttempt ==
    /\ retry.pc = "try"
    /\ LET k == retry.attempt + 1
       IN  retry' = [retry EXCEPT
                        !.attempt = k,
                        !.pc = IF retry.script[k] THEN "returned"
                               ELSE IF k - 1 < MAX_RETRIES - 1 THEN "sleep"
                               ELSE "raised",
                        !.raised = ~retry.script[k] /\ ~(k - 1 < MAX_RETRIES - 1)]
    /\ UNCHANGED <<now, sheet, lead_state, reminders, sellers, admin_users,
                   outbox, undelivered, reported, writes, pass, faults, mon,
                   events, edited, skipped, missed>>
    /\ UNCHANGED roundtrip

\* "await asyncio.sleep(wait_time)" after a failed attempt that was not the last
RetrySleep ==
    /\ retry.pc = "sleep"
    /\ retry' = [retry EXCEPT !.waits = Append(@, wait_time(retry.attempt - 1)),
                              !.pc = "try"]
    /\ UNCHANGED <<now, sheet, lead_state, reminders, sellers, admin_users,
                   outbox, undelivered, reported, writes, pass, faults, mon,
                   events, edited, skipped, missed>>
    /\ UNCHANGED roundtrip

\* the caller's try/except around _retry_operation: get_all_leads returns
\* the leads or [], update_lead (here of the Status cell of the first row)
\* returns True or False
RetryCaller ==
    /\ retry.pc \in {"returned", "raised"}
    /\ LET ok == ~retry.raised
       IN  IF retry.caller = "get_all_leads"
           THEN /\ retry' = [retry EXCEPT !.pc = "done", !.result = get_all_leads(ok)]
                /\ UNCHANGED sheet
           ELSE /\ retry' = [retry EXCEPT !.pc = "done",
                                 !.result = update_lead_result(sheet, sheet[1].ID, ok)]
                /\ sheet' = update_lead(sheet, sheet[1].ID,
                                        [Status |-> STATUS_CALL1_NEEDED], ok)
    /\ UNCHANGED <<now, lead_state, reminders, sellers, admin_users,
                   outbox, undelivered, reported, writes, pass, faults, mon,
                   events, edited, skipped, missed>>
    /\ UNCHANGED roundtrip

-----------------------------------------------------------------------------
(* services/reminders.py: the rule table *)

\* next((s for s in sellers if s.get("full_name") == seller_name
\*       or s.get("username") == seller_name), None)
reminder_seller(seller_name) ==
    {s \in get_all_sellers :
        RowGet(s, "full_name") = seller_name \/ RowGet(s, "username") = seller_name}

\* "admin_ids = [admin["telegram_id"] for admin in admins]" and
\* "admin_ids.extend(ADMIN_IDS)": a list, an id once per occurrence
admin_ids == SetToBag(get_all_admins) (+) SetToBag(ADMIN_IDS)

\* an escalation that reads the administrators of the users table only
Recipients_db_admins(lead, reminder_type) ==
    IF reminder_type = "call1_12h"
    THEN admin_users
    ELSE {s.telegram_id : s \in reminder_seller(lead.Seller)}

\* whom a _send_* routine addresses: set(admin_ids) for the 12-hour
\* escalation, the seller found for the lead otherwise
Recipients(lead, reminder_type) ==
    IF reminder_type = "call1_12h"
    THEN BagToSet(admin_ids)
    ELSE {s.telegram_id : s \in reminder_seller(lead.Seller)}

\* a message handed to bot.send_message: its recipient, the reminder it
\* carries (type and scheduled_time, NoneDT when it has none) and the time
Message(to, kind, lead_id, sched) ==
    [to |-> to, kind |-> kind, lead |-> lead_id, sched |-> sched, at |-> now]

\* bot.send_message to each recipient; it raises for all of them unless "sent"
Send(box, lead, kind, sched, recipients, sent) ==
    IF sent
    THEN box (+) SetToBag({Message(r, kind, lead.ID, sched) :
                             r \in recipients \ {NoTelegram}})
    ELSE box

\* the messages bot.send_message raised for: logged and dropped
Drop(box, lead, kind, sched, recipients, sent) ==
    IF sent
    THEN box
    ELSE box (+) SetToBag({Message(r, kind, lead.ID, sched) :
                             r \in recipients \ {NoTelegram}})

\* bot.send_message is called, and may raise, only for a recipient
Addressed(recipients) == recipients \ {NoTelegram} # {}

Report(kind, lead_id) == [type |-> kind, lead_id |-> lead_id, at |-> now]

\* scheduled_time of a ledger-gated reminder
ScheduledTime(lead, reminder_type) ==
    CASE reminder_type = "call1_1h" ->
            format_datetime(add_hours(parse_datetime(lead.Created_At), 1))
      [] reminder_type = "call1_2h" ->
            format_datetime(add_hours(parse_datetime(lead.Created_At), 2))
      [] reminder_type = "call1_12h" ->
            format_datetime(add_hours(parse_datetime(lead.Created_At), 12))
      [] reminder_type = "call2_due" ->
            format_datetime(parse_datetime(lead.Call_2_Time))
      [] reminder_type = "call3_due" ->
            format_datetime(parse_datetime(lead.Call_3_Time))
      [] reminder_type = "first_class_24h" ->
            format_datetime(add_hours(parse_datetime(lead.First_Class_Date), -24))
      [] reminder_type = "first_class_2h" ->
            format_datetime(add_hours(parse_datetime(lead.First_Class_Date), -2))
      [] reminder_type = "did_not_attend" -> format_datetime(now)

\* a handler whose reminders are due only in the hour after their threshold
Call1NeededDue_one_hour_window(lead) ==
    LET created_at == parse_datetime(lead.Created_At)
        hours_since_creation == hours_between(created_at, now)
    IN  IF lead.Created_At = EmptyCell \/ created_at = NoneDT
        THEN <<>>
        ELSE (IF hours_since_creation >= 1 * 60 /\ hours_since_creation < 2 * 60
              THEN <<"call1_1h">> ELSE <<>>)
             \o (IF hours_since_creation >= 2 * 60 /\ hours_since_creation < 3 * 60
                 THEN <<"call1_2h">> ELSE <<>>)
             \o (IF hours_since_creation >= 12 * 60 /\ hours_since_creation < 13 * 60
                 THEN <<"call1_12h">> ELSE <<>>)

\* _handle_call1_needed: the rules whose threshold has passed, in order
Call1NeededDue(lead) ==
    LET created_at == parse_datetime(lead.Created_At)
        hours_since_creation == hours_between(created_at, now)
    IN  IF lead.Created_At = EmptyCell \/ created_at = NoneDT
        THEN <<>>
        ELSE (IF hours_since_creation >= 1 * 60 THEN <<"call1_1h">> ELSE <<>>)
             \o (IF hours_since_creation >= 2 * 60 THEN <<"call1_2h">> ELSE <<>>)
             \o (IF hours_since_creation >= 12 * 60 THEN <<"call1_12h">> ELSE <<>>)

\* a handler whose windows have no far edge: a reminder stays due until the class
FirstClassDue_no_window_start(lead) ==
    LET first_class_date == parse_datetime(lead.First_Class_Date)
        hours_until == time_until(first_class_date)
    IN  IF lead.First_Class_Date = EmptyCell \/ first_class_date = NoneDT
        THEN <<>>
        ELSE (IF 0 <= hours_until /\ hours_until <= 25 * 60
              THEN <<"first_class_24h">> ELSE <<>>)
             \o (IF 0 <= hours_until /\ hours_until <= 150
                 THEN <<"first_class_2h">> ELSE <<>>)

\* _handle_first_class_pending: the reminders whose window holds now
FirstClassDue(lead) ==
    LET first_class_date == parse_datetime(lead.First_Class_Date)
        hours_until == time_until(first_class_date)
    IN  IF lead.First_Class_Date = EmptyCell \/ first_class_date = NoneDT
        THEN <<>>
        ELSE (IF 23 * 60 <= hours_until /\ hours_until <= 25 * 60
              THEN <<"first_class_24h">> ELSE <<>>)
             \o (IF 90 <= hours_until /\ hours_until <= 150
                 THEN <<"first_class_2h">> ELSE <<>>)

\* the columns and reminder types of _handle_call1_done / _handle_call2_done
DoneCol(status) == IF status = STATUS_CALL1_DONE THEN "Call_1_Time" ELSE "Call_2_Time"
NextCol(status) == IF status = STATUS_CALL1_DONE THEN "Call_2_Time" ELSE "Call_3_Time"
NextDelay(status) ==
    IF status = STATUS_CALL1_DONE THEN REMINDER_CALL2_DELAY ELSE REMINDER_CALL3_DELAY
ScheduledKind(status) ==
    IF status = STATUS_CALL1_DONE THEN "call2_scheduled" ELSE "call3_scheduled"
DueKind(status) == IF status = STATUS_CALL1_DONE THEN "call2_due" ELSE "call3_due"

\* call1_time (call2_time): now when the cell is empty or does not parse
DoneTime(lead) ==
    LET s == lead[DoneCol(lead.Status)]
    IN  IF s = EmptyCell \/ parse_datetime(s) = NoneDT THEN now ELSE parse_datetime(s)

\* the time _handle_call1_done (_handle_call2_done) schedules the next call at
NextCallTime(lead) == add_seconds(DoneTime(lead), NextDelay(lead.Status))

\* "if call2_time_str: ... if call2_time and is_past(call2_time)"
CallDue(lead) ==
    LET s == lead[NextCol(lead.Status)]
    IN  IF s # EmptyCell /\ parse_datetime(s) # NoneDT /\ is_past(parse_datetime(s))
        THEN <<DueKind(lead.Status)>>
        ELSE <<>>

\* a dispatch that takes a status it does not know for 'Call #1 Needed'
DueRules_unknown_as_call1(lead) ==
    CASE lead.Status = STATUS_CALL1_DONE -> CallDue(lead)
      [] lead.Status = STATUS_CALL2_DONE -> CallDue(lead)
      [] lead.Status = STATUS_FIRST_CLASS_PENDING -> FirstClassDue(lead)
      [] lead.Status = STATUS_DID_NOT_ATTEND -> <<"did_not_attend">>
      [] OTHER -> Call1NeededDue(lead)

\* the ledger-gated reminders process_lead goes through for a lead
DueRules(lead) ==
    CASE lead.Status = STATUS_CALL1_NEEDED -> Call1NeededDue(lead)
      [] lead.Status = STATUS_CALL1_DONE -> CallDue(lead)
      [] lead.Status = STATUS_CALL2_DONE -> CallDue(lead)
      [] lead.Status = STATUS_FIRST_CLASS_PENDING -> FirstClassDue(lead)
      [] lead.Status = STATUS_DID_NOT_ATTEND -> <<"did_not_attend">>
      [] OTHER -> <<>>

-----------------------------------------------------------------------------
(* services/reminders.py: a pass of process_all_leads, one step per await *)

NPasses == 2
Passes == 1 .. NPasses

\* the failures of the sheet and of the notification channel a run may hold
MaxFaults == 2

Outcomes(attempted) ==
    IF attempted /\ faults < MaxFaults THEN BOOLEAN ELSE {TRUE}

Failed(ok) == IF ok THEN 0 ELSE 1

\* the leads of a snapshot the for loop has not reached when an exception
\* leaves it through the except clause around the whole loop
Remaining(st, job) ==
    {[job |-> job, lead_id |-> st.snap[i].ID, at |-> now] :
        i \in (st.idx + 1) .. Len(st.snap)}

Idle == [pc |-> "idle", snap |-> <<>>, idx |-> 0, todo |-> <<>>, ran |-> NoneDT]

AllIdle == mon.pc = "idle" /\ \A p \in DOMAIN pass : pass[p].pc = "idle"

\* an invocation whose job stops for good, never to be started again
Aborted_stops_job(st) == [st EXCEPT !.pc = "stopped"]

\* "except Exception as e: logger.error(...); return []": the invocation is
\* over and the job waits for its next tick
Aborted(st) == [Idle EXCEPT !.ran = st.ran]

CurrentLead(p) == pass[p].snap[pass[p].idx]

\* the for loop of process_all_leads moves to the next lead, or the pass ends
NextLead(st) ==
    IF st.idx < Len(st.snap)
    THEN [st EXCEPT !.idx = @ + 1, !.pc = "lead", !.todo = <<>>]
    ELSE [Idle EXCEPT !.ran = st.ran]

\* after a rule of the handler: its next rule, or the next lead
AfterRule(st) ==
    IF Tail(st.todo) # <<>>
    THEN [st EXCEPT !.todo = Tail(@), !.pc = "check"]
    ELSE NextLead(st)

\* process_all_leads fetches the snapshot
StartPass(p) ==
    /\ pass[p].pc = "idle"
    /\ pass[p].ran # now
    /\ \E ok \in Outcomes(TRUE) :
        LET leads == get_all_leads(ok)
        IN  /\ pass' = [pass EXCEPT ![p] =
                          IF leads = <<>>
                          THEN [@ EXCEPT !.ran = now]
                          ELSE [pc |-> "lead", snap |-> leads, idx |-> 1,
                                todo |-> <<>>, ran |-> now]]
            /\ faults' = faults + Failed(ok)
    /\ UNCHANGED <<now, sheet, lead_state, reminders, sellers, admin_users,
                   outbox, reported, writes>>
    /\ UNCHANGED skipped
    /\ UNCHANGED undelivered
    /\ UNCHANGED monitorVars
    /\ UNCHANGED missed
    /\ UNCHANGED retry
    /\ UNCHANGED roundtrip

\* _handle_call1_done / _handle_call2_done up to the due check: the call
\* time of the finished call is stored when its cell is empty, the next call
\* is scheduled and announced when its cell is empty
ScheduleCalls(lead, ok1, ok2, sent) ==
    LET id == lead.ID
        setDone == lead[DoneCol(lead.Status)] = EmptyCell
        setNext == lead[NextCol(lead.Status)] = EmptyCell
        sh1 == IF setDone
               THEN update_call_time(sheet, id, DoneCol(lead.Status), now, ok1)
               ELSE sheet
        sh2 == IF setNext
               THEN update_call_time(sh1, id, NextCol(lead.Status), NextCallTime(lead), ok2)
               ELSE sh1
        w1 == IF setDone
              THEN SetToBag({WriteRecord(id, DoneCol(lead.Status), format_datetime(now),
                                         update_lead_result(sheet, id, ok1))})
              ELSE EmptyBag
        w2 == IF setNext
              THEN SetToBag({WriteRecord(id, NextCol(lead.Status),
                                         format_datetime(NextCallTime(lead)),
                                         update_lead_result(sh1, id, ok2))})
              ELSE EmptyBag
    IN  /\ sheet' = sh2
        /\ writes' = writes (+) w1 (+) w2
        /\ outbox' = IF setNext
                     THEN Send(outbox, lead, ScheduledKind(lead.Status), NoneDT,
                               Recipients(lead, ScheduledKind(lead.Status)), sent)
                     ELSE outbox
        /\ undelivered' = IF setNext
                          THEN Drop(undelivered, lead, ScheduledKind(lead.Status), NoneDT,
                                    Recipients(lead, ScheduledKind(lead.Status)), sent)
                          ELSE undelivered
        /\ reported' = IF setNext
                       THEN reported (+) SetToBag({Report(ScheduledKind(lead.Status), id)})
                       ELSE reported

\* process_lead up to the first ledger check of the status handler
BeginLead(p) ==
    /\ pass[p].pc = "lead"
    /\ LET lead == CurrentLead(p)
       IN  IF lead.ID = "" \/ lead.Status = ""
           THEN /\ pass' = [pass EXCEPT ![p] = NextLead(@)]
                /\ UNCHANGED <<sheet, lead_state, outbox, undelivered, reported,
                               writes, faults>>
           ELSE /\ lead_state' = update_lead_state(lead_state, lead.ID, lead.Status)
                /\ IF lead.Status \in {STATUS_CALL1_DONE, STATUS_CALL2_DONE}
                   THEN \E ok1 \in Outcomes(lead[DoneCol(lead.Status)] = EmptyCell),
                           ok2 \in Outcomes(lead[NextCol(lead.Status)] = EmptyCell),
                           sent \in Outcomes(
                               /\ lead[NextCol(lead.Status)] = EmptyCell
                               /\ Addressed(Recipients(lead, ScheduledKind(lead.Status)))) :
                            /\ Failed(ok1) + Failed(ok2) + Failed(sent) <= MaxFaults - faults
                            /\ ScheduleCalls(lead, ok1, ok2, sent)
                            /\ faults' = faults + Failed(ok1) + Failed(ok2) + Failed(sent)
                   ELSE UNCHANGED <<sheet, outbox, undelivered, reported, writes, faults>>
                /\ pass' = [pass EXCEPT ![p] =
                              IF DueRules(lead) = <<>>
                              THEN NextLead(@)
                              ELSE [@ EXCEPT !.todo = DueRules(lead), !.pc = "check"]]
    /\ UNCHANGED <<now, reminders, sellers, admin_users>>
    /\ UNCHANGED skipped
    /\ UNCHANGED monitorVars
    /\ UNCHANGED missed
    /\ UNCHANGED retry
    /\ UNCHANGED roundtrip

\* "if not await was_reminder_sent(lead_id, type, scheduled_time)"; when the
\* query raises, the except clause of process_all_leads ends the pass
GateCheck(p) ==
    /\ pass[p].pc = "check"
    /\ LET lead == CurrentLead(p)
           ty == Head(pass[p].todo)
       IN  \E ok \in Outcomes(TRUE) :
               /\ pass' = [pass EXCEPT ![p] =
                             IF ~ok
                             THEN Aborted(pass[p])
                             ELSE IF was_reminder_sent(lead.ID, ty, ScheduledTime(lead, ty))
                             THEN AfterRule(@)
                             ELSE [@ EXCEPT !.pc = "send"]]
               /\ skipped' = IF ok THEN skipped
                              ELSE skipped \cup Remaining(pass[p], "process_leads")
               /\ faults' = faults + Failed(ok)
    /\ UNCHANGED <<now, sheet, lead_state, reminders, sellers, admin_users,
                   outbox, reported, writes>>
    /\ UNCHANGED undelivered
    /\ UNCHANGED monitorVars
    /\ UNCHANGED missed
    /\ UNCHANGED retry
    /\ UNCHANGED roundtrip

\* "await self._send_*(lead, bot, ...)"
GateSend(p) ==
    /\ pass[p].pc = "send"
    /\ LET lead == CurrentLead(p)
           ty == Head(pass[p].todo)
       IN  \E sent \in Outcomes(Addressed(Recipients(lead, ty))) :
               /\ outbox' = Send(outbox, lead, ty, ScheduledTime(lead, ty),
                                Recipients(lead, ty), sent)
               /\ undelivered' = Drop(undelivered, lead, ty, ScheduledTime(lead, ty),
                                      Recipients(lead, ty), sent)
               /\ faults' = faults + Failed(sent)
    /\ pass' = [pass EXCEPT ![p].pc = "mark"]
    /\ UNCHANGED <<now, sheet, lead_state, reminders, sellers, admin_users,
                   reported, writes>>
    /\ UNCHANGED skipped
    /\ UNCHANGED monitorVars
    /\ UNCHANGED missed
    /\ UNCHANGED retry
    /\ UNCHANGED roundtrip

\* "await mark_reminder_sent(lead_id, type, scheduled_time)" and
\* reminders_sent.append
GateMark(p) ==
    /\ pass[p].pc = "mark"
    /\ LET lead == CurrentLead(p)
           ty == Head(pass[p].todo)
       IN  /\ reminders' = mark_reminder_sent(reminders, lead.ID, ty, ScheduledTime(lead, ty))
           /\ reported' = reported (+) SetToBag({Report(ty, lead.ID)})
    /\ pass' = [pass EXCEPT ![p] = AfterRule(@)]
    /\ UNCHANGED <<now, sheet, lead_state, sellers, admin_users, outbox, writes, faults>>
    /\ UNCHANGED skipped
    /\ UNCHANGED undelivered
    /\ UNCHANGED monitorVars
    /\ UNCHANGED missed
    /\ UNCHANGED retry
    /\ UNCHANGED roundtrip

-----------------------------------------------------------------------------
(* services/lead_monitor.py: a run of process_all_changes, one step per     *)
(* read of the Lead State Record and one per handler                        *)

MonIdle == [pc |-> "idle", snap |-> <<>>, idx |-> 0, last |-> PyNone,
            found |-> EmptyBag, ran |-> NoneDT, err |-> FALSE]

Event(kind, lead_id, status) ==
    [type |-> kind, lead_id |-> lead_id, status |-> status, at |-> now]

\* the names lead_monitor.py imports from config, and the names the list
\* significant_changes of _send_status_change_notification is built from
MonitorGlobals == {"STATUS_NEW_LEAD", "STATUS_CALL1_NEEDED"}

SignificantNames ==
    {"STATUS_CALL1_DONE", "STATUS_CALL2_DONE", "STATUS_CALL3_DONE",
     "STATUS_FIRST_CLASS_SCHEDULED", "STATUS_FIRST_CLASS_CONFIRMED",
     "STATUS_FOLLOWUP_NEEDED"}

\* building significant_changes raises NameError for a name that is no
\* global of the module
NameError == \E n \in SignificantNames : n \notin MonitorGlobals

significant_changes ==
    {STATUS_CALL1_DONE, STATUS_CALL2_DONE, STATUS_CALL3_DONE,
     "First Class Scheduled", "First Class Confirmed", "Follow-up Needed"}

\* the seller _handle_new_lead and _handle_status_change go on with: found
\* by get_seller_by_name and linked to a Telegram account
monitor_seller(lead) ==
    {s \in get_seller_by_name(Trim(lead.Seller)) : s.telegram_id # NoTelegram}

\* "if current_status == STATUS_NEW_LEAD or not current_status"
NeedsBootstrap(lead) ==
    Trim(lead.Status) = STATUS_NEW_LEAD \/ Trim(lead.Status) = ""

\* the column handle_status_change stamps for the new status
CallCol(status) ==
    CASE status = STATUS_CALL1_DONE -> "Call_1_Time"
      [] status = STATUS_CALL2_DONE -> "Call_2_Time"
      [] status = STATUS_CALL3_DONE -> "Call_3_Time"
      [] OTHER -> ""

\* the for loop of check_for_new_leads moves on, or the function returns
NextNew(st) ==
    IF st.idx < Len(st.snap)
    THEN [st EXCEPT !.idx = @ + 1, !.pc = "new"]
    ELSE [st EXCEPT !.pc = "refetch"]

\* the for loop of check_for_status_changes moves on, or the function returns
NextChanged(st) ==
    IF st.idx < Len(st.snap)
    THEN [st EXCEPT !.idx = @ + 1, !.pc = "changed"]
    ELSE [st EXCEPT !.pc = "return"]

\* check_for_new_leads fetches its snapshot
StartMonitor ==
    /\ mon.pc = "idle"
    /\ mon.ran # now
    /\ \E ok \in Outcomes(TRUE) :
        LET leads == get_all_leads(ok)
        IN  /\ mon' = IF leads = <<>>
                      THEN [MonIdle EXCEPT !.pc = "refetch", !.ran = now]
                      ELSE [MonIdle EXCEPT !.pc = "new", !.snap = leads,
                                           !.idx = 1, !.ran = now]
            /\ faults' = faults + Failed(ok)
    /\ UNCHANGED <<now, sheet, lead_state, reminders, sellers, admin_users,
                   outbox, reported, writes, pass, events, edited>>
    /\ UNCHANGED skipped
    /\ UNCHANGED undelivered
    /\ UNCHANGED missed
    /\ UNCHANGED retry
    /\ UNCHANGED roundtrip

\* "last_state = await get_lead_state(lead_id)" and "if not last_state"; when
\* the query raises, the except clause of check_for_new_leads returns []
NewLeadCheck ==
    /\ mon.pc = "new"
    /\ \E ok \in Outcomes(TRUE) :
        /\ mon' = IF ~ok
                  THEN [mon EXCEPT !.pc = "refetch", !.found = EmptyBag,
                                   !.err = TRUE]
                  ELSE IF get_lead_state(mon.snap[mon.idx].ID) = NoState
                  THEN [mon EXCEPT !.pc = "newlead"]
                  ELSE NextNew(mon)
        /\ skipped' = IF ok THEN skipped
                       ELSE skipped \cup Remaining(mon, "monitor_leads")
        /\ faults' = faults + Failed(ok)
    /\ UNCHANGED <<now, sheet, lead_state, reminders, sellers, admin_users,
                   outbox, reported, writes, pass, events, edited>>
    /\ UNCHANGED undelivered
    /\ UNCHANGED missed
    /\ UNCHANGED retry
    /\ UNCHANGED roundtrip

\* _handle_new_lead, then update_lead_state with the status of the snapshot
\* and new_leads.append; the bootstrap write is recorded under its Status
\* column with the call time it carries
NewLeadHandle ==
    /\ mon.pc = "newlead"
    /\ LET lead == mon.snap[mon.idx]
           to == monitor_seller(lead)
           boot == to # {} /\ NeedsBootstrap(lead)
       IN  \E ok \in Outcomes(boot), sent \in Outcomes(to # {}) :
               /\ Failed(ok) + Failed(sent) <= MaxFaults - faults
               /\ sheet' = IF boot
                           THEN update_lead(sheet, lead.ID,
                                    [Status |-> STATUS_CALL1_NEEDED,
                                     Call_1_Time |-> format_datetime(now)], ok)
                           ELSE sheet
               /\ writes' = IF boot
                            THEN writes (+) SetToBag({WriteRecord(lead.ID, "Status",
                                     format_datetime(now),
                                     update_lead_result(sheet, lead.ID, ok))})
                            ELSE writes
               /\ outbox' = Send(outbox, lead, "new_lead", NoneDT,
                                 {s.telegram_id : s \in to}, sent)
               /\ undelivered' = Drop(undelivered, lead, "new_lead", NoneDT,
                                      {s.telegram_id : s \in to}, sent)
               /\ faults' = faults + Failed(ok) + Failed(sent)
               /\ lead_state' = update_lead_state(lead_state, lead.ID, lead.Status)
               /\ mon' = NextNew([mon EXCEPT !.found =
                            @ (+) SetToBag({Event("new_lead", lead.ID, lead.Status)})])
    /\ UNCHANGED <<now, reminders, sellers, admin_users, reported, pass,
                   events, edited>>
    /\ UNCHANGED skipped
    /\ UNCHANGED missed
    /\ UNCHANGED retry
    /\ UNCHANGED roundtrip

\* check_for_new_leads returns new_leads; check_for_status_changes fetches
\* its snapshot
StartChanges ==
    /\ mon.pc = "refetch"
    /\ events' = events (+) mon.found
    /\ \E ok \in Outcomes(TRUE) :
        LET leads == get_all_leads(ok)
        IN  /\ mon' = IF leads = <<>>
                      THEN [mon EXCEPT !.pc = "return", !.found = EmptyBag]
                      ELSE [mon EXCEPT !.pc = "changed", !.snap = leads,
                                       !.idx = 1, !.found = EmptyBag]
            /\ faults' = faults + Failed(ok)
    /\ UNCHANGED <<now, sheet, lead_state, reminders, sellers, admin_users,
                   outbox, reported, writes, pass, edited>>
    /\ UNCHANGED skipped
    /\ UNCHANGED undelivered
    /\ UNCHANGED missed
    /\ UNCHANGED retry
    /\ UNCHANGED roundtrip

\* "if last_state: ... if current_status != last_status and current_status"
ChangeCheck ==
    /\ mon.pc = "changed"
    /\ LET lead == mon.snap[mon.idx]
           last_state == get_lead_state(lead.ID)
       IN  mon' = IF /\ last_state # NoState
                     /\ lead.Status # last_state.last_status
                     /\ lead.Status # ""
                  THEN [mon EXCEPT !.pc = "change", !.last = last_state.last_status]
                  ELSE NextChanged(mon)
    /\ UNCHANGED <<now, sheet, lead_state, reminders, sellers, admin_users,
                   outbox, reported, writes, pass, faults, events, edited>>
    /\ UNCHANGED skipped
    /\ UNCHANGED undelivered
    /\ UNCHANGED missed
    /\ UNCHANGED retry
    /\ UNCHANGED roundtrip

\* _handle_status_change, then update_lead_state and changed_leads.append;
\* an exception of the handler leaves the loop and the function returns []
ChangeHandle ==
    /\ mon.pc = "change"
    /\ LET lead == mon.snap[mon.idx]
           to == monitor_seller(lead)
           stamp == to # {} /\ CallCol(lead.Status) # "" /\ HasLead(sheet, lead.ID)
           notify == to # {} /\ lead.Status \in significant_changes
       IN  IF to # {} /\ NameError
           THEN /\ mon' = [mon EXCEPT !.pc = "return", !.found = EmptyBag,
                                      !.err = TRUE]
                /\ skipped' = skipped \cup Remaining(mon, "monitor_leads")
                /\ UNCHANGED <<sheet, lead_state, outbox, undelivered, writes, faults>>
           ELSE \E ok \in Outcomes(stamp), sent \in Outcomes(notify) :
                   /\ Failed(ok) + Failed(sent) <= MaxFaults - faults
                   /\ outbox' = IF notify
                                THEN Send(outbox, lead, "status_changed", NoneDT,
                                          {s.telegram_id : s \in to}, sent)
                                ELSE outbox
                   /\ undelivered' = IF notify
                                     THEN Drop(undelivered, lead, "status_changed", NoneDT,
                                               {s.telegram_id : s \in to}, sent)
                                     ELSE undelivered
                   /\ sheet' = IF stamp
                               THEN update_call_time(sheet, lead.ID,
                                        CallCol(lead.Status), now, ok)
                               ELSE sheet
                   /\ writes' = IF stamp
                                THEN writes (+) SetToBag({WriteRecord(lead.ID,
                                         CallCol(lead.Status), format_datetime(now),
                                         update_lead_result(sheet, lead.ID, ok))})
                                ELSE writes
                   /\ faults' = faults + Failed(ok) + Failed(sent)
                   /\ lead_state' = update_lead_state(lead_state, lead.ID, lead.Status)
                   /\ UNCHANGED skipped
                   /\ mon' = NextChanged([mon EXCEPT !.found =
                                @ (+) SetToBag({Event("status_changed", lead.ID,
                                                      lead.Status)})])
    /\ UNCHANGED <<now, reminders, sellers, admin_users, reported, pass,
                   events, edited>>
    /\ UNCHANGED missed
    /\ UNCHANGED retry
    /\ UNCHANGED roundtrip

\* check_for_status_changes returns changed_leads and the job ends
MonitorReturn ==
    /\ mon.pc = "return"
    /\ events' = events (+) mon.found
    /\ mon' = [MonIdle EXCEPT !.ran = mon.ran, !.err = mon.err]
    /\ UNCHANGED <<now, sheet, lead_state, reminders, sellers, admin_users,
                   outbox, reported, writes, pass, faults, edited>>
    /\ UNCHANGED skipped
    /\ UNCHANGED undelivered
    /\ UNCHANGED missed
    /\ UNCHANGED retry
    /\ UNCHANGED roundtrip

\* a seller records in the sheet that the first call of a lead was made; the
\* edit is kept with the status the Lead State Record held when it was made
ExternalEdit ==
    /\ \E i \in DOMAIN sheet :
        /\ sheet[i].Status = STATUS_CALL1_NEEDED
        /\ sheet' = [sheet EXCEPT ![i].Status = STATUS_CALL1_DONE]
        /\ edited' = edited \cup {[lead_id |-> sheet[i].ID,
                                   old |-> STATUS_CALL1_NEEDED,
                                   new |-> STATUS_CALL1_DONE,
                                   recorded |-> get_lead_state(sheet[i].ID).last_status,
                                   at |-> now]}
    /\ UNCHANGED <<now, lead_state, reminders, sellers, admin_users,
                   outbox, reported, writes, pass, faults, mon, events>>
    /\ UNCHANGED skipped
    /\ UNCHANGED undelivered
    /\ UNCHANGED missed
    /\ UNCHANGED retry
    /\ UNCHANGED roundtrip

-----------------------------------------------------------------------------
(* scheduler.py: the interval trigger *)

PollTimes == {30, 61, 65, 121, 181, 725, 1410, 1411, 1471, 1472}

\* the clock reaches the next tick of the interval trigger
Tick ==
    /\ AllIdle
    /\ \E t \in PollTimes :
        /\ t > now
        /\ \A u \in PollTimes : u > now => t <= u
        /\ now' = t
    /\ UNCHANGED <<sheet, lead_state, reminders, sellers, admin_users,
                   outbox, reported, writes, pass, faults>>
    /\ UNCHANGED skipped
    /\ UNCHANGED undelivered
    /\ UNCHANGED monitorVars
    /\ UNCHANGED missed
    /\ UNCHANGED retry
    /\ UNCHANGED roundtrip

-----------------------------------------------------------------------------
(* the states the engine starts from *)

LeadIds == {"L1", "L2"}

Lead(id, status, seller, created, c1, c2, c3, fc) ==
    [ID |-> id, Status |-> status, Seller |-> seller, Created_At |-> created,
     Call_1_Time |-> c1, Call_2_Time |-> c2, Call_3_Time |-> c3,
     First_Class_Date |-> fc]

SellerRow(name, tg, active) ==
    [seller_name |-> name, telegram_id |-> tg, is_active |-> active]

\* one lead per rule of the table, each with seller "ali"
RuleLeads ==
    { Lead("L1", STATUS_CALL1_NEEDED, "ali", 0, EmptyCell, EmptyCell, EmptyCell, EmptyCell),
      Lead("L1", STATUS_CALL1_DONE, "ali", 0, 1, EmptyCell, EmptyCell, EmptyCell),
      Lead("L1", STATUS_CALL1_DONE, "ali", 0, EmptyCell, EmptyCell, EmptyCell, EmptyCell),
      Lead("L1", STATUS_CALL2_DONE, "ali", 0, 1, 31, EmptyCell, EmptyCell),
      Lead("L1", STATUS_FIRST_CLASS_PENDING, "ali", 0, 0, 0, 0, 1561),
      Lead("L1", STATUS_DID_NOT_ATTEND, "ali", 0, 0, 0, 0, 0) }

Registries == { {}, {SellerRow("ali", 101, 1)} }

AdminTables == { {}, {901, 902} }

InitCommon ==
    /\ lead_state = [id \in LeadIds |-> NoState]
    /\ reminders = <<>>
    /\ sellers \in Registries
    /\ admin_users \in AdminTables
    /\ outbox = EmptyBag
    /\ undelivered = EmptyBag
    /\ reported = EmptyBag
    /\ writes = EmptyBag
    /\ pass = [p \in Passes |-> Idle]
    /\ faults = 0
    /\ mon = MonIdle
    /\ events = EmptyBag
    /\ edited = {}
    /\ skipped = {}
    /\ missed = {}
    /\ retry = RetryIdle
    /\ roundtrip = NoRoundTrip

\* the reminder job alone, one pass at a time (max_instances=1)
Init ==
    /\ InitCommon
    /\ now = 0
    /\ \E lead \in RuleLeads : sheet = <<lead>>

Next ==
    \/ StartPass(1)
    \/ BeginLead(1)
    \/ GateCheck(1)
    \/ GateSend(1)
    \/ GateMark(1)
    \/ Tick

Spec == Init /\ [][Next]_vars

\* several passes of the reminder job at once over the same sheet, as when
\* more than one engine runs; the clock starts at the end of the 2-hour window
InitConc ==
    /\ InitCommon
    /\ now = 1471
    /\ \E lead \in RuleLeads : sheet = <<lead>>

NextConc ==
    \/ \E p \in Passes : StartPass(p)
    \/ \E p \in Passes : BeginLead(p)
    \/ \E p \in Passes : GateCheck(p)
    \/ \E p \in Passes : GateSend(p)
    \/ \E p \in Passes : GateMark(p)
    \/ Tick

SpecConc == InitConc /\ [][NextConc]_vars

\* the leads the monitor job meets: not yet worked on, created at 0
NewLeads ==
    { Lead("L1", "", "ali", 0, EmptyCell, EmptyCell, EmptyCell, EmptyCell),
      Lead("L1", STATUS_NEW_LEAD, "ali", 0, EmptyCell, EmptyCell, EmptyCell, EmptyCell),
      Lead("L1", STATUS_CALL1_NEEDED, "ali", 0, EmptyCell, EmptyCell, EmptyCell, EmptyCell) }

\* the monitor job and the reminder job, both on the interval trigger, each
\* one run at a time (max_instances=1), their steps interleaved
InitJobs ==
    /\ InitCommon
    /\ now = 1411
    /\ \E lead \in NewLeads : sheet = <<lead>>

NextJobs ==
    \/ StartMonitor
    \/ NewLeadCheck
    \/ NewLeadHandle
    \/ StartChanges
    \/ ChangeCheck
    \/ ChangeHandle
    \/ MonitorReturn
    \/ ExternalEdit
    \/ StartPass(1)
    \/ BeginLead(1)
    \/ GateCheck(1)
    \/ GateSend(1)
    \/ GateMark(1)
    \/ Tick

SpecJobs == InitJobs /\ [][NextJobs]_vars

\* sheets of two leads, so that a batch has a lead after the one at hand;
\* the leads were created 60 minutes before the poll
BatchSheets ==
    { <<Lead("L1", STATUS_NEW_LEAD, "ali", 1412, EmptyCell, EmptyCell, EmptyCell, EmptyCell),
        Lead("L2", STATUS_CALL1_NEEDED, "ali", 1412, EmptyCell, EmptyCell, EmptyCell, EmptyCell)>>,
      <<Lead("L1", STATUS_CALL1_NEEDED, "ali", 1412, EmptyCell, EmptyCell, EmptyCell, EmptyCell),
        Lead("L2", STATUS_NEW_LEAD, "ali", 1412, EmptyCell, EmptyCell, EmptyCell, EmptyCell)>> }

\* one tick of the interval trigger: both jobs over a batch of two leads
InitBatch ==
    /\ InitCommon
    /\ now = 1472
    /\ sheet \in BatchSheets

NextBatch ==
    \/ StartMonitor
    \/ NewLeadCheck
    \/ NewLeadHandle
    \/ StartChanges
    \/ ChangeCheck
    \/ ChangeHandle
    \/ MonitorReturn
    \/ StartPass(1)
    \/ BeginLead(1)
    \/ GateCheck(1)
    \/ GateSend(1)
    \/ GateMark(1)

SpecBatch == InitBatch /\ [][NextBatch]_vars

\* "max_instances=1" of the two interval jobs
max_instances_two == 1 + 1

max_instances == 1

\* the invocations of the reminder job in progress
Running == {p \in Passes : pass[p].pc # "idle"}

\* the interval trigger fires whether or not an invocation is in progress:
\* with max_instances invocations running the executor refuses the run
\* and the tick is skipped
Fire ==
    /\ \E t \in PollTimes :
        /\ t > now
        /\ \A u \in PollTimes : u > now => t <= u
        /\ now' = t
        /\ missed' = IF Cardinality(Running) >= max_instances
                      THEN missed \cup {t}
                      ELSE missed
    /\ UNCHANGED <<sheet, lead_state, reminders, sellers, admin_users,
                   outbox, undelivered, reported, writes, pass, faults,
                   mon, events, edited, skipped>>
    /\ UNCHANGED retry
    /\ UNCHANGED roundtrip

\* the executor starts the invocation of a tick that was not skipped
Submit(p) ==
    /\ now \notin missed
    /\ \A q \in Passes : pass[q].ran # now
    /\ StartPass(p)

\* the reminder job under a trigger that fires during its invocations
InitTicks ==
    /\ InitCommon
    /\ now = 1410
    /\ \E lead \in RuleLeads : sheet = <<lead>>

NextTicks ==
    \/ \E p \in Passes : Submit(p)
    \/ \E p \in Passes : BeginLead(p)
    \/ \E p \in Passes : GateCheck(p)
    \/ \E p \in Passes : GateSend(p)
    \/ \E p \in Passes : GateMark(p)
    \/ Fire

SpecTicks == InitTicks /\ [][NextTicks]_vars

\* an administrator adds the seller of the leads to the sellers table and
\* links the Telegram account; created_at is the time of the insert
RegisterSeller ==
    /\ get_seller_by_name("ali") = {}
    /\ sellers' = sellers \cup {[seller_name |-> "ali", telegram_id |-> 101,
                                  is_active |-> 1, created_at |-> now]}
    /\ UNCHANGED <<now, sheet, lead_state, reminders, admin_users, outbox,
                   undelivered, reported, writes, pass, faults, mon, events,
                   edited, skipped, missed>>
    /\ UNCHANGED retry
    /\ UNCHANGED roundtrip

\* the reminder job over leads whose seller is registered only later
InitReg ==
    /\ InitCommon
    /\ sellers = {}
    /\ admin_users = {}
    /\ now = 0
    /\ \E lead \in RuleLeads :
          /\ lead.Status \in {STATUS_CALL1_NEEDED, STATUS_CALL2_DONE}
          /\ sheet = <<lead>>

NextReg ==
    \/ StartPass(1)
    \/ BeginLead(1)
    \/ GateCheck(1)
    \/ GateSend(1)
    \/ GateMark(1)
    \/ RegisterSeller
    \/ Tick

SpecReg == InitReg /\ [][NextReg]_vars

\* the outcomes of the successive calls of the operation, one more than
\* the attempts _retry_operation may make
RetryScripts == [1 .. MAX_RETRIES + 1 -> BOOLEAN]

\* one call of _retry_operation, from get_all_leads or from update_lead
InitRetry ==
    /\ lead_state = [id \in LeadIds |-> NoState]
    /\ reminders = <<>>
    /\ sellers = {}
    /\ admin_users = {}
    /\ outbox = EmptyBag
    /\ undelivered = EmptyBag
    /\ reported = EmptyBag
    /\ writes = EmptyBag
    /\ pass = [p \in Passes |-> Idle]
    /\ faults = 0
    /\ mon = MonIdle
    /\ events = EmptyBag
    /\ edited = {}
    /\ skipped = {}
    /\ missed = {}
    /\ roundtrip = NoRoundTrip
    /\ now = 0
    /\ \E lead \in NewLeads : sheet = <<lead>>
    /\ \E c \in {"get_all_leads", "update_lead"}, sc \in RetryScripts :
          retry = [RetryIdle EXCEPT !.pc = "try", !.caller = c, !.script = sc]

NextRetry ==
    \/ RetryAttempt
    \/ RetrySleep
    \/ RetryCaller

SpecRetry == InitRetry /\ [][NextRetry]_vars /\ WF_vars(NextRetry)

\* one lead per rule of the table whose basis cell holds text that no
\* format of parse_datetime matches
BadLeads ==
    { Lead("L1", STATUS_CALL1_NEEDED, "ali", BadCell, EmptyCell, EmptyCell, EmptyCell, EmptyCell),
      Lead("L1", STATUS_CALL1_DONE, "ali", 0, BadCell, EmptyCell, EmptyCell, EmptyCell),
      Lead("L1", STATUS_CALL2_DONE, "ali", 0, 1, BadCell, EmptyCell, EmptyCell),
      Lead("L1", STATUS_FIRST_CLASS_PENDING, "ali", 0, 0, 0, 0, BadCell) }

\* the reminder job over a lead with an unparsable basis timestamp
InitBad ==
    /\ InitCommon
    /\ now = 0
    /\ \E lead \in BadLeads : sheet = <<lead>>

NextBad ==
    \/ StartPass(1)
    \/ BeginLead(1)
    \/ GateCheck(1)
    \/ GateSend(1)
    \/ GateMark(1)
    \/ Tick

SpecBad == InitBad /\ [][NextBad]_vars

\* timestamps with whole seconds around the ends of days, months and
\* years, naive or with the offsets +00:00, +05:00 and -05:30
RoundTripInputs ==
    {Datetime(date, time, zone[1], zone[2]) :
        date \in {<<2024, 1, 1>>, <<2024, 2, 29>>, <<2024, 3, 1>>, <<2024, 12, 31>>},
        time \in {0, 4, 18, 23} \X {0, 29, 59} \X {0, 59},
        zone \in {<<FALSE, 0>>, <<TRUE, 0>>, <<TRUE, 300>>, <<TRUE, -330>>}}

\* format_datetime, then parse_datetime, of one timestamp
InitTime ==
    /\ lead_state = [id \in LeadIds |-> NoState]
    /\ reminders = <<>>
    /\ sellers = {}
    /\ admin_users = {}
    /\ outbox = EmptyBag
    /\ undelivered = EmptyBag
    /\ reported = EmptyBag
    /\ writes = EmptyBag
    /\ pass = [p \in Passes |-> Idle]
    /\ faults = 0
    /\ mon = MonIdle
    /\ events = EmptyBag
    /\ edited = {}
    /\ skipped = {}
    /\ missed = {}
    /\ retry = RetryIdle
    /\ now = 0
    /\ sheet = <<>>
    /\ \E dt \in RoundTripInputs : roundtrip = [NoRoundTrip EXCEPT !.pc = "input", !.dt = dt]

NextTime ==
    \/ FormatStep
    \/ ParseStep

SpecTime == InitTime /\ [][NextTime]_vars

\* a lead whose status no branch of process_lead handles, or with no
\* status at all, ahead of a lead the first rule applies to
OtherStatuses ==
    {"", STATUS_NEW_LEAD, STATUS_CALL3_DONE, "First Class Confirmed", "Lost Lead"}

InitOther ==
    /\ InitCommon
    /\ admin_users = {}
    /\ now = 0
    /\ \E st \in OtherStatuses :
          sheet = <<Lead("L1", st, "ali", 0, EmptyCell, EmptyCell, EmptyCell, EmptyCell),
                    Lead("L2", STATUS_CALL1_NEEDED, "ali", 0, EmptyCell, EmptyCell,
                         EmptyCell, EmptyCell)>>

NextOther ==
    \/ StartPass(1)
    \/ BeginLead(1)
    \/ GateCheck(1)
    \/ GateSend(1)
    \/ GateMark(1)
    \/ Tick

SpecOther == InitOther /\ [][NextOther]_vars

\* the last tick of the interval trigger the clock reaches
LastPoll == CHOOSE t \in PollTimes : \A u \in PollTimes : u <= t

\* both jobs over the last two ticks; the event loop runs every coroutine
\* that can take a step, and the trigger fires at every tick
InitSched ==
    /\ InitCommon
    /\ now = 1471
    /\ \E lead \in NewLeads : sheet = <<lead>>

NextSched ==
    \/ StartMonitor
    \/ NewLeadCheck
    \/ NewLeadHandle
    \/ StartChanges
    \/ ChangeCheck
    \/ ChangeHandle
    \/ MonitorReturn
    \/ StartPass(1)
    \/ BeginLead(1)
    \/ GateCheck(1)
    \/ GateSend(1)
    \/ GateMark(1)
    \/ Tick

SpecSched == InitSched /\ [][NextSched]_vars /\ WF_vars(NextSched)

\* the interval trigger goes on firing after the last tick the clock counts:
\* the clock stays at its last value and the reminder job is due again
TickOn ==
    /\ AllIdle
    /\ now = LastPoll
    /\ pass[1].ran = now
    /\ pass' = [pass EXCEPT ![1].ran = NoneDT]
    /\ UNCHANGED <<now, sheet, lead_state, reminders, sellers, admin_users,
                   outbox, undelivered, reported, writes, faults, mon, events,
                   edited, skipped, missed, retry, roundtrip>>

\* the reminder job from the creation of a lead on: the lead stays in
\* 'Call #1 Needed', a tick may pass without a run of the job, and the
\* event loop runs every coroutine that can take a step
InitLive ==
    /\ InitCommon
    /\ now = 0
    /\ sheet = <<Lead("L1", STATUS_CALL1_NEEDED, "ali", 0, EmptyCell, EmptyCell,
                       EmptyCell, EmptyCell)>>

NextLive ==
    \/ StartPass(1)
    \/ BeginLead(1)
    \/ GateCheck(1)
    \/ GateSend(1)
    \/ GateMark(1)
    \/ Tick
    \/ TickOn

SpecLive == InitLive /\ [][NextLive]_vars /\ WF_vars(NextLive)

-----------------------------------------------------------------------------
(* what the claims speak of *)

\* the row of the sheet a ledger row, a message or a write belongs to
LeadOf(lead_id) == sheet[FirstRow(sheet, lead_id)]

\* how many messages of a kind the channel accepted for a lead
Dispatched(lead_id, kind) ==
    BagCardinality([m \in {x \in BagToSet(outbox) : x.lead = lead_id /\ x.kind = kind}
                        |-> outbox[m]])

\* how many times a pass listed a reminder of a kind in reminders_sent
Reported(lead_id, kind) ==
    BagCardinality([r \in {x \in BagToSet(reported) : x.lead_id = lead_id /\ x.type = kind}
                        |-> reported[r]])

LedgerRows(lead_id, kind) ==
    {i \in DOMAIN reminders :
        reminders[i].lead_id = lead_id /\ reminders[i].reminder_type = kind}

\* the seller of the lead is registered under the very name of the sheet,
\* active and linked to a Telegram account
SellerLinked(lead) ==
    \E s \in sellers :
        s.seller_name = lead.Seller /\ s.is_active = 1 /\ s.telegram_id # NoTelegram

\* a pass of the reminder job that started at the current tick has ended
PassDone(p) == pass[p].pc = "idle" /\ pass[p].ran = now

InWindow24(lead, t) ==
    /\ add_hours(parse_datetime(lead.First_Class_Date), -25) <= t
    /\ t <= add_hours(parse_datetime(lead.First_Class_Date), -23)

InWindow2(lead, t) ==
    /\ parse_datetime(lead.First_Class_Date) - 150 <= t
    /\ t <= parse_datetime(lead.First_Class_Date) - 90

InItsWindow(lead, kind, t) ==
    /\ kind = "first_class_24h" => InWindow24(lead, t)
    /\ kind = "first_class_2h" => InWindow2(lead, t)

-----------------------------------------------------------------------------
(* C1: for every (lead_id, reminder_type, scheduled_time) triple at most    *)
(* one dispatch occurs in any execution, whether the passes follow one      *)
(* another or run concurrently with their steps interleaved: no recipient   *)
(* gets the reminder of a triple twice.                                     *)
C1_AtMostOneDispatch ==
    \A m \in BagToSet(outbox) :
        m.sched # NoneDT =>
            BagCardinality([x \in {y \in BagToSet(outbox) :
                                     /\ y.to = m.to /\ y.lead = m.lead
                                     /\ y.kind = m.kind /\ y.sched = m.sched}
                               |-> outbox[x]]) <= 1

(* C2: in every execution of a reminder rule the ledger row of the triple   *)
(* is inserted before the reminder is dispatched, so every message the      *)
(* channel has accepted for a ledger-gated reminder has its row in the      *)
(* ledger.                                                                  *)
C2_LedgerRowBeforeDispatch ==
    \A m \in BagToSet(outbox) :
        m.sched # NoneDT => UniqueViolation(reminders, m.lead, m.kind, m.sched)

(* C3: in every reachable state the ledger holds at most one row per        *)
(* (lead_id, reminder_type, scheduled_time) triple, each with status        *)
(* 'sent', and a step never changes or removes a row: mark_reminder_sent    *)
(* for a triple that has a row returns False and leaves the ledger as it    *)
(* was, whatever the interleaving of the callers.                           *)
LedgerUnique ==
    \A i, j \in DOMAIN reminders :
        /\ reminders[i].status = "sent"
        /\ Triple(reminders[i]) = Triple(reminders[j]) => i = j

DuplicateMarkKeepsLedger ==
    \A p \in Passes :
        ( /\ pass[p].pc = "mark"
          /\ pass'[p] # pass[p]
          /\ UniqueViolation(reminders, CurrentLead(p).ID, Head(pass[p].todo),
                             ScheduledTime(CurrentLead(p), Head(pass[p].todo))) )
        => /\ ~mark_reminder_sent_result(reminders, CurrentLead(p).ID, Head(pass[p].todo),
                                         ScheduledTime(CurrentLead(p), Head(pass[p].todo)))
           /\ reminders' = reminders

C3_LedgerUnique == [](LedgerUnique) /\ [][DuplicateMarkKeepsLedger]_vars

\* two passes listed the same reminder as sent at the same time and the
\* ledger holds the single row the first of them inserted
C3_Witness ==
    /\ Len(reminders) = 1
    /\ \E r \in BagToSet(reported) :
        /\ reported[r] >= 2
        /\ r.type = reminders[1].reminder_type
        /\ r.lead_id = reminders[1].lead_id

(* C4: a lead created at T = 0 that stays in 'Call #1 Needed', with its     *)
(* seller registered and no failure of the sheet or the channel: once a     *)
(* pass at T+61 or T+65 has ended exactly one 1-hour reminder and nothing   *)
(* else has been dispatched, after the pass at T+121 exactly one 1-hour and *)
(* one 2-hour reminder, and after the pass at T+12h5 those two and one      *)
(* escalation per administrator.                                            *)
C4_Call1Schedule ==
    LET lead == sheet[1]
        n1 == Dispatched(lead.ID, "call1_1h")
        n2 == Dispatched(lead.ID, "call1_2h")
        n12 == Dispatched(lead.ID, "call1_12h")
    IN  ( /\ lead.Status = STATUS_CALL1_NEEDED
          /\ lead.Created_At = 0
          /\ SellerLinked(lead)
          /\ faults = 0
          /\ PassDone(1) )
        => /\ now \in {61, 65} => n1 = 1 /\ n2 = 0 /\ n12 = 0
           /\ now = 121 => n1 = 1 /\ n2 = 1 /\ n12 = 0
           /\ now = 725 => n1 = 1 /\ n2 = 1
                           /\ n12 = Cardinality(get_all_admins \cup ADMIN_IDS)

(* C7: for a lead that stays in the did-not-attend status the notification  *)
(* goes out once: the ledger entry that gates it is scoped to the (lead,    *)
(* type) pair, so there is at most one such entry and a later pass sends    *)
(* nothing more.                                                            *)
C7_DidNotAttendOnce ==
    \A id \in LeadIds :
        /\ Cardinality(LedgerRows(id, "did_not_attend")) <= 1
        /\ Reported(id, "did_not_attend") <= 1
        /\ Dispatched(id, "did_not_attend") <= 1

(* C8: for a first-class-pending lead with first_class_date = T whose       *)
(* seller is registered, once a pass polled in [T-25h, T-23h] has ended the *)
(* 24-hour reminder has been dispatched exactly once, and once a pass       *)
(* polled in [T-2.5h, T-1.5h] has ended the 2-hour reminder has been        *)
(* dispatched exactly once.                                                 *)
C8_FirstClassDispatchedInWindow ==
    LET lead == sheet[1]
    IN  ( /\ lead.Status = STATUS_FIRST_CLASS_PENDING
          /\ parse_datetime(lead.First_Class_Date) # NoneDT
          /\ SellerLinked(lead)
          /\ faults = 0
          /\ PassDone(1) )
        => /\ InWindow24(lead, now) => Dispatched(lead.ID, "first_class_24h") = 1
           /\ InWindow2(lead, now) => Dispatched(lead.ID, "first_class_2h") = 1

(* C9: no first-class reminder is dispatched or reported, and no            *)
(* first_class_24h / first_class_2h ledger row is written, at a poll time   *)
(* outside [T-25h, T-23h] / [T-2.5h, T-1.5h]: a reminder whose window held  *)
(* no poll is never sent late.                                              *)
C9_NothingOutsideWindow ==
    /\ \A i \in DOMAIN reminders :
        InItsWindow(LeadOf(reminders[i].lead_id), reminders[i].reminder_type,
                    reminders[i].sent_time)
    /\ \A m \in BagToSet(outbox) : InItsWindow(LeadOf(m.lead), m.kind, m.at)
    /\ \A r \in BagToSet(reported) : InItsWindow(LeadOf(r.lead_id), r.type, r.at)

\* both windows have gone by, the 2-hour reminder was written in its window
\* and the 24-hour one, whose window no pass polled, was never written
C9_Witness ==
    /\ sheet[1].Status = STATUS_FIRST_CLASS_PENDING
    /\ PassDone(1)
    /\ ~InWindow2(sheet[1], now) /\ now > parse_datetime(sheet[1].First_Class_Date) - 90
    /\ LedgerRows("L1", "first_class_2h") # {}
    /\ LedgerRows("L1", "first_class_24h") = {}

StatusEvents(lead_id, status) ==
    BagCardinality([e \in {x \in BagToSet(events) :
                              /\ x.type = "status_changed"
                              /\ x.lead_id = lead_id /\ x.status = status}
                        |-> events[e]])

Call1Kinds == {"call1_1h", "call1_2h", "call1_12h"}

C5_ExactlyOneStatusChanged ==
    \A e \in edited :
        ( /\ e.recorded = e.old
          /\ faults = 0
          /\ AllIdle
          /\ mon.ran > e.at )
        => /\ StatusEvents(e.lead_id, e.new) = 1
           /\ \A i \in DOMAIN reminders :
                ~( /\ reminders[i].lead_id = e.lead_id
                   /\ reminders[i].reminder_type \in Call1Kinds
                   /\ reminders[i].sent_time > e.at )
           /\ \A m \in BagToSet(outbox) :
                ~(m.lead = e.lead_id /\ m.kind \in Call1Kinds /\ m.at > e.at)

(* C6: a lead that has no Lead State Record when it first appears and that  *)
(* nobody edits: once a run of the monitor job has ended, with no failure   *)
(* of the sheet or the channel, exactly one 'new lead' event has been       *)
(* returned for it and at most one bootstrap write was made, however the    *)
(* steps of the monitor job and of the reminder job interleave.             *)
NewLeadEvents(lead_id) ==
    BagCardinality([e \in {x \in BagToSet(events) :
                              x.type = "new_lead" /\ x.lead_id = lead_id}
                        |-> events[e]])

BootstrapWrites(lead_id) ==
    BagCardinality([w \in {x \in BagToSet(writes) :
                              x.column = "Status" /\ x.lead_id = lead_id}
                        |-> writes[w]])

C6_ExactlyOneNewLead ==
    \A i \in DOMAIN sheet :
        ( /\ edited = {}
          /\ faults = 0
          /\ AllIdle
          /\ mon.ran # NoneDT )
        => /\ NewLeadEvents(sheet[i].ID) = 1
           /\ BootstrapWrites(sheet[i].ID) <= 1

(* C11: when bot.send_message raises for a ledger-gated reminder, the       *)
(* triple is recorded as sent once the rule has run to its end, and the     *)
(* reminder of that triple is handed to the channel at no other time: no    *)
(* later pass tries it again.                                               *)
SameTriple(m, u) == m.lead = u.lead /\ m.kind = u.kind /\ m.sched = u.sched

C11_FailedDispatchStillRecorded ==
    \A u \in BagToSet(undelivered) :
        u.sched # NoneDT =>
            /\ pass[1].pc # "mark" => was_reminder_sent(u.lead, u.kind, u.sched)
            /\ undelivered[u] = 1
            /\ \A m \in BagToSet(outbox) \cup BagToSet(undelivered) :
                    SameTriple(m, u) => m.at = u.at

\* the escalation was dropped by the channel at one poll, and a pass at a
\* later poll has gone through the lead again
C11_Witness ==
    \E u \in BagToSet(undelivered) :
        /\ u.kind = "call1_12h"
        /\ faults = 1
        /\ now > u.at
        /\ PassDone(1)
        /\ lead_state[u.lead].last_checked = now

(* C12: for a lead that stays in 'Call #1 Done' ('Call #2 Done') whose      *)
(* call-2 (call-3) cell was empty, with its seller registered and no        *)
(* failure: once a pass has gone through the lead, the time was written     *)
(* once, as call_1_time + 2h (call_2_time + 24h), the 'call scheduled'      *)
(* notification has been dispatched exactly once, and the 'call due'        *)
(* reminder has been dispatched exactly once if a pass after the writing    *)
(* one polled after that time, and not at all otherwise.                    *)
NextWrites(lead) ==
    {w \in BagToSet(writes) : w.lead_id = lead.ID /\ w.column = NextCol(lead.Status)}

C12_CallScheduledAndDueOnce ==
    LET lead == sheet[1]
    IN  ( /\ lead.Status \in {STATUS_CALL1_DONE, STATUS_CALL2_DONE}
          /\ NextWrites(lead) # {}
          /\ SellerLinked(lead)
          /\ faults = 0
          /\ PassDone(1)
          /\ lead_state[lead.ID].last_checked = now )
        => /\ \A w \in NextWrites(lead) :
                /\ writes[w] = 1
                /\ NextWrites(lead) = {w}
                /\ w.value = lead[DoneCol(lead.Status)] + NextDelay(lead.Status)
                /\ Dispatched(lead.ID, DueKind(lead.Status)) =
                      IF w.at < now /\ w.value < now THEN 1 ELSE 0
           /\ Dispatched(lead.ID, ScheduledKind(lead.Status)) = 1
           /\ \A m \in BagToSet(outbox) :
                m.kind = DueKind(lead.Status) => m.at > m.sched

(* C13: an error raised while a pass of either job processes one lead does  *)
(* not stop the pass: no lead that comes after it in the snapshot is left   *)
(* unprocessed by that pass.                                                *)
C13_BatchNotAborted == skipped = {}

(* C14: when the bootstrap write of a newly observed lead returns failure,  *)
(* the pass writes no Lead State Record for the lead: as long as no         *)
(* bootstrap write has succeeded for it the lead has no record, so the      *)
(* next pass takes it as new again.                                         *)
C14_FailedBootstrapLeavesNoRecord ==
    \A w \in BagToSet(writes) :
        ( /\ w.column = "Status"
          /\ ~w.ok
          /\ \A v \in BagToSet(writes) :
                ~(v.column = "Status" /\ v.lead_id = w.lead_id /\ v.ok) )
        => get_lead_state(w.lead_id) = NoState

(* C15: a fetch or a write that exhausts its retries, or an exception in a  *)
(* job invocation, never stops the scheduler: the failing invocation ends   *)
(* and both jobs are invoked again at the ticks that follow, up to the      *)
(* last one.                                                                *)
C15_FailedJobInvokedAgain ==
    [](faults > 0 =>
          <>(/\ mon.pc = "idle" /\ mon.ran = LastPoll
             /\ pass[1].pc = "idle" /\ pass[1].ran = LastPoll))

C15_Witness ==
    /\ \E w \in BagToSet(writes) : ~w.ok /\ w.at < now
    /\ now = LastPoll
    /\ pass[1].ran = now /\ pass[1].pc = "idle"
    /\ mon.ran = now /\ mon.pc = "idle"

C17_OnePassAtATime ==
    ~(mon.pc # "idle" /\ pass[1].pc # "idle")

(* C18: every newly observed lead whose status is empty or "New Lead" is    *)
(* advanced to "Call #1 Needed" with its call-1 timestamp, whether or not   *)
(* its seller is registered and linked: when no write fails, the bootstrap  *)
(* write of each such lead has been made.                                   *)
C18_EveryNewLeadBootstrapped ==
    \A e \in BagToSet(events) \cup BagToSet(mon.found) :
        ( /\ e.type = "new_lead"
          /\ e.status \in {"", STATUS_NEW_LEAD}
          /\ faults = 0 )
        => \E w \in BagToSet(writes) :
              /\ w.lead_id = e.lead_id
              /\ w.column = "Status"
              /\ w.ok

(* C19: after a detect-changes pass that completes without error, every     *)
(* lead of the snapshot has a Lead State Record whose last_status is the    *)
(* status of the snapshot and whose last_checked was written by this pass   *)
(* (stated for a tick at which no edit was made and the reminder job has    *)
(* not run, so that the record is the work of the detect-changes pass).     *)
C19_EveryLeadRecordedEachPass ==
    ( /\ mon.pc = "idle"
      /\ mon.ran = now
      /\ ~mon.err
      /\ pass[1].ran # now
      /\ faults = 0
      /\ \A e \in edited : e.at < now )
    => \A i \in DOMAIN sheet :
          /\ get_lead_state(sheet[i].ID) # NoState
          /\ get_lead_state(sheet[i].ID).last_status = sheet[i].Status
          /\ get_lead_state(sheet[i].ID).last_checked = format_datetime(now)

(* C20: a detected status transition whose new status is in the             *)
(* significant set is notified to the assigned seller exactly once: for an  *)
(* edit the Lead State Record did not yet hold, met by a detect-changes     *)
(* pass of a later tick before any reminder pass, with the seller linked    *)
(* and no failure, one status-change notification has been dispatched.      *)
C20_SignificantChangeNotifiedOnce ==
    \A e \in edited :
        ( /\ e.recorded = e.old
          /\ e.new \in significant_changes
          /\ SellerLinked(LeadOf(e.lead_id))
          /\ faults = 0
          /\ pass[1].ran < e.at
          /\ mon.pc = "idle"
          /\ mon.ran > e.at )
        => Dispatched(e.lead_id, "status_changed") = 1

(* C21: an ordinary (seller-addressed) reminder the rule engine produced    *)
(* for a lead whose seller is registered and linked has been dispatched to  *)
(* that seller's telegram id when no send failed, and no message of an      *)
(* ordinary reminder has any other recipient.                               *)
C21_OrdinaryReminderToSeller ==
    /\ \A r \in BagToSet(reported) :
          ( /\ r.type # "call1_12h"
            /\ SellerLinked(LeadOf(r.lead_id))
            /\ faults = 0 )
          => \E m \in BagToSet(outbox) :
                /\ m.lead = r.lead_id
                /\ m.kind = r.type
                /\ m.to \in {s.telegram_id :
                                s \in get_seller_by_name(LeadOf(r.lead_id).Seller)}
    /\ \A m \in BagToSet(outbox) :
          m.kind \notin {"call1_12h", "new_lead", "status_changed"}
          => m.to \in {s.telegram_id :
                          s \in get_seller_by_name(LeadOf(m.lead).Seller)}

\* the ledger-gated reminders addressed to the seller of the lead
GatedOrdinary ==
    {"call1_1h", "call1_2h", "call2_due", "call3_due",
     "first_class_24h", "first_class_2h"}

\* no seller of the lead's name was registered when the ledger row was written
UnmatchedWhenRecorded(r) ==
    \A s \in get_seller_by_name(LeadOf(r.lead_id).Seller) :
        s.created_at > r.sent_time

(* C22: a ledger-gated reminder whose lead's seller name matches no         *)
(* registered seller is dropped and not retried: the triple is recorded as  *)
(* sent by the pass that met it, nothing is handed to the channel for it,   *)
(* and no later pass goes through it again, also after the seller has been  *)
(* registered.                                                              *)
C22_UnmatchedDroppedNotRetried ==
    /\ \A rp \in BagToSet(reported) :
          rp.type \in GatedOrdinary
          => \E i \in DOMAIN reminders :
                /\ reminders[i].lead_id = rp.lead_id
                /\ reminders[i].reminder_type = rp.type
                /\ reminders[i].status = "sent"
    /\ \A i \in DOMAIN reminders :
          ( /\ reminders[i].reminder_type \in GatedOrdinary
            /\ UnmatchedWhenRecorded(reminders[i]) )
          => /\ \A m \in BagToSet(outbox) \cup BagToSet(undelivered) :
                   ~( /\ m.lead = reminders[i].lead_id
                      /\ m.kind = reminders[i].reminder_type
                      /\ m.sched = reminders[i].scheduled_time )
             /\ Reported(reminders[i].lead_id, reminders[i].reminder_type) = 1

C22_Witness ==
    \E i \in DOMAIN reminders :
        /\ reminders[i].reminder_type = "call1_1h"
        /\ UnmatchedWhenRecorded(reminders[i])
        /\ get_seller_by_name(LeadOf(reminders[i].lead_id).Seller) # {}
        /\ now > reminders[i].sent_time
        /\ PassDone(1)
        /\ get_lead_state(reminders[i].lead_id).last_checked = now

\* the escalation messages the channel accepted for a lead
Escalations(lead_id) ==
    {m \in BagToSet(outbox) : m.kind = "call1_12h" /\ m.lead = lead_id}

(* C23: the 12-hour escalation of a lead goes to every administrator of    *)
(* the users table and of ADMIN_IDS and to nobody else, and each of them   *)
(* receives it once, also one who is in both sources.                      *)
C23_EscalationToAllAdminsOnce ==
    \A id \in LeadIds :
        /\ \A m \in Escalations(id) :
              /\ m.to \in admin_users \cup ADMIN_IDS
              /\ outbox[m] = 1
              /\ \A m2 \in Escalations(id) : m2.to = m.to => m2 = m
        /\ (Reported(id, "call1_12h") >= 1 /\ faults = 0)
              => {m.to : m \in Escalations(id)} = admin_users \cup ADMIN_IDS

C23_Witness ==
    /\ admin_users \cap ADMIN_IDS # {}
    /\ admin_users \ ADMIN_IDS # {}
    /\ {m.to : m \in Escalations("L1")} = admin_users \cup ADMIN_IDS
    /\ SellerLinked(LeadOf("L1"))
    /\ PassDone(1)

\* the calls of the operation that failed before the k-th
AllFailedBefore(k) == \A j \in 1 .. k - 1 : ~retry.script[j]

\* what _retry_operation has done so far is within its contract
RetryContract ==
    /\ retry.attempt <= MAX_RETRIES
    /\ AllFailedBefore(retry.attempt)
    /\ Len(retry.waits) <= retry.attempt
    /\ \A k \in DOMAIN retry.waits : retry.waits[k] = RETRY_DELAY * 2 ^ (k - 1)
    /\ retry.pc = "try" => Len(retry.waits) = retry.attempt
    /\ retry.pc \in {"returned", "raised", "done"} =>
          /\ Len(retry.waits) = retry.attempt - 1
          /\ retry.raised <=> (retry.attempt = MAX_RETRIES
                                /\ ~retry.script[MAX_RETRIES])
          /\ ~retry.raised => retry.script[retry.attempt]
    /\ retry.pc = "done" =>
          /\ (retry.caller = "get_all_leads" /\ retry.raised)
                => retry.result = <<>>
          /\ (retry.caller = "get_all_leads" /\ ~retry.raised)
                => retry.result = sheet
          /\ retry.caller = "update_lead" => retry.result = ~retry.raised

(* C24: _retry_operation always terminates: it makes at most MAX_RETRIES    *)
(* attempts, returns at the first successful one, waits RETRY_DELAY * 2^k   *)
(* before attempt k+2 and raises after the last failed attempt;             *)
(* get_all_leads then returns the empty list and update_lead returns False. *)
C24_RetryTerminates ==
    /\ []RetryContract
    /\ <>(retry.pc = "done")

C24_Witness ==
    /\ retry.pc = "done"
    /\ retry.raised
    /\ retry.waits = <<RETRY_DELAY, 2 * RETRY_DELAY>>
    /\ retry.caller = "update_lead"
    /\ retry.result = FALSE
    /\ retry.script[MAX_RETRIES + 1]

\* the cell a rule of the table reads its basis timestamp from
Basis(lead) ==
    CASE lead.Status = STATUS_CALL1_NEEDED -> lead.Created_At
      [] lead.Status = STATUS_CALL1_DONE -> lead.Call_1_Time
      [] lead.Status = STATUS_CALL2_DONE -> lead.Call_2_Time
      [] lead.Status = STATUS_FIRST_CLASS_PENDING -> lead.First_Class_Date
      [] OTHER -> EmptyCell

(* C25: a lead whose rule's basis timestamp is present but unparsable is    *)
(* skipped by the reminder pass: no reminder is dispatched or listed, no    *)
(* ledger row is written and no external write is made for it.              *)
C25_UnparsableBasisSkipped ==
    \A i \in DOMAIN sheet :
        Basis(sheet[i]) = BadCell
        => /\ \A w \in BagToSet(writes) : w.lead_id # sheet[i].ID
           /\ \A j \in DOMAIN reminders : reminders[j].lead_id # sheet[i].ID
           /\ \A m \in BagToSet(outbox) \cup BagToSet(undelivered) :
                 m.lead # sheet[i].ID
           /\ \A r \in BagToSet(reported) : r.lead_id # sheet[i].ID

(* C26: for every timestamp dt with whole seconds, parse_datetime of        *)
(* format_datetime(dt) denotes the same instant as dt to the second, also   *)
(* when dt carries an offset other than UTC.                                *)
C26_FormatParseRoundTrip ==
    roundtrip.pc = "parsed"
    => /\ roundtrip.back # PyNoneDT
       /\ Instant(roundtrip.back) = Instant(roundtrip.dt)

C26_Witness ==
    /\ roundtrip.pc = "parsed"
    /\ roundtrip.dt.tz = 300
    /\ roundtrip.dt.date = <<2024, 1, 1>>
    /\ roundtrip.dt.time[1] = 4
    /\ roundtrip.back.date = <<2023, 12, 31>>
    /\ roundtrip.back.time[1] = 23

\* what a pass may change outside its own run
PassEffects ==
    <<lead_state, reminders, sheet, outbox, undelivered, reported, writes>>

(* C27: a pass whose snapshot fetch fails after all retries has no lead to  *)
(* go through: it leaves the Lead State Records, the ledger and the sheet   *)
(* as they were, adds no event of its own and dispatches nothing.           *)
C27_FailedFetchChangesNothing ==
    [][ /\ ( /\ pass[1].pc = "idle" /\ pass'[1].ran = now /\ pass[1].ran # now
             /\ faults' = faults + 1 )
           => /\ pass'[1].pc = "idle"
              /\ UNCHANGED PassEffects
              /\ UNCHANGED events
        /\ ( /\ mon.pc = "idle" /\ mon'.ran = now /\ mon.ran # now
             /\ faults' = faults + 1 )
           => /\ mon'.pc = "refetch"
              /\ mon'.found = EmptyBag
              /\ UNCHANGED PassEffects
              /\ UNCHANGED events
        /\ ( /\ mon.pc = "refetch" /\ mon'.pc # "refetch"
             /\ faults' = faults + 1 )
           => /\ mon'.pc = "return"
              /\ mon'.found = EmptyBag
              /\ UNCHANGED PassEffects
              /\ events' = events (+) mon.found
      ]_vars

C27_Witness ==
    /\ faults = 1
    /\ pass[1].pc = "idle" /\ pass[1].ran = now
    /\ mon.pc = "idle" /\ mon.ran # now
    /\ sheet[1].Status = STATUS_CALL1_NEEDED
    /\ get_lead_state(sheet[1].ID) = NoState
    /\ reminders = <<>>
    /\ undelivered = EmptyBag

\* the statuses a branch of process_lead handles
RuleStatuses ==
    {STATUS_CALL1_NEEDED, STATUS_CALL1_DONE, STATUS_CALL2_DONE,
     STATUS_FIRST_CLASS_PENDING, STATUS_DID_NOT_ATTEND}

\* the reminders the handler of a status may send
KindsOf(status) ==
    CASE status = STATUS_CALL1_NEEDED -> {"call1_1h", "call1_2h", "call1_12h"}
      [] status = STATUS_CALL1_DONE -> {"call2_scheduled", "call2_due"}
      [] status = STATUS_CALL2_DONE -> {"call3_scheduled", "call3_due"}
      [] status = STATUS_FIRST_CLASS_PENDING -> {"first_class_24h", "first_class_2h"}
      [] status = STATUS_DID_NOT_ATTEND -> {"did_not_attend"}
      [] OTHER -> {}

(* C28: process_lead runs at most one status handler per lead: whatever is  *)
(* recorded, written or sent for a lead belongs to the handler of its       *)
(* status.  For a status outside the rule table that is nothing: the pass   *)
(* only upserts the Lead State Record; for a lead with an empty status it   *)
(* does not do that either.                                                 *)
C28_OneHandlerPerLead ==
    \A i \in DOMAIN sheet :
        LET lead == sheet[i]
        IN  /\ \A j \in DOMAIN reminders :
                  reminders[j].lead_id = lead.ID
                  => reminders[j].reminder_type \in KindsOf(lead.Status)
            /\ \A m \in BagToSet(outbox) \cup BagToSet(undelivered) :
                  m.lead = lead.ID => m.kind \in KindsOf(lead.Status)
            /\ \A r \in BagToSet(reported) :
                  r.lead_id = lead.ID => r.type \in KindsOf(lead.Status)
            /\ lead.Status \notin RuleStatuses
                  => \A w \in BagToSet(writes) : w.lead_id # lead.ID
            /\ lead.Status = "" => get_lead_state(lead.ID) = NoState
            /\ (lead.Status \notin RuleStatuses /\ lead.Status # ""
                   /\ PassDone(1) /\ faults = 0)
                  => get_lead_state(lead.ID) =
                        [last_status |-> lead.Status,
                         last_checked |-> format_datetime(now)]

C28_Witness ==
    /\ sheet[1].Status = "Lost Lead"
    /\ now >= 725
    /\ PassDone(1)
    /\ get_lead_state("L1").last_checked = now
    /\ Len(reminders) = 3

(* C29: the engine's own bootstrap write is not reported as a status        *)
(* change: for a lead the detect-changes pass advanced to 'Call #1 Needed'  *)
(* and nobody edited since, no pass takes the status-changed branch of      *)
(* check_for_status_changes and none emits a 'status changed' event.        *)
Bootstrapped(lead_id) ==
    /\ \E w \in BagToSet(writes) :
          w.lead_id = lead_id /\ w.column = "Status" /\ w.ok
    /\ \A d \in edited : d.lead_id # lead_id

Call1Row(kind, hours) ==
    \E i \in DOMAIN reminders :
        /\ Triple(reminders[i]) =
              <<"L1", kind, format_datetime(add_hours(parse_datetime(sheet[1].Created_At), hours))>>
        /\ reminders[i].sent_time >= add_hours(parse_datetime(sheet[1].Created_At), hours)

NoEarlyCall1Row ==
    \A i \in DOMAIN reminders :
        reminders[i].sent_time >= reminders[i].scheduled_time

====
